---- MODULE Spec2Model ----
(***************************************************************************)
(* popular-movies-historic: the incremental synchronisation of daily       *)
(* snapshots into an R2 bucket (src/src/lib/movies/api.ts, lines 25-186)   *)
(* and the worker entry points (src/src/index.ts).                         *)
(*                                                                         *)
(* Calendar days are numbered: day 0 is 2019-12-01, day 1 is 2019-12-02    *)
(* (the earliest sync date), and so on.  A JavaScript Date is an instant,  *)
(* modelled as a number of ticks, TicksPerDay ticks to the day, so that a  *)
(* Date carries a time of day and the "YYYY-MM-DD" text of a Date is not   *)
(* the Date.  The worker runs in UTC (Cloudflare Workers), so local and    *)
(* UTC calendar fields agree.                                              *)
(***************************************************************************)
EXTENDS Integers, Sequences, FiniteSets, TLC

\* ------------------------------------------------------------- bounds
MaxDay == 9          \* the clock never passes the end of this day
ProbeMaxDay == 5     \* the same, when one day is singled out for observation
StoredMaxDay == 3    \* the same, when the bucket holds objects from the start
ReadMaxDay == 3      \* the same, when requests to the read path are served
TwoMaxDay == 3       \* the same, when two runs interleave
LiveMaxDay == 9      \* the day of the clock lies between the epoch and this day, when it is held fixed
RetryDays == 3       \* days the remote source has published, when its data is fixed
UrlSpan == 6         \* getAllHistoricUrls is called for days this far around a boundary
MaxExisting == 3     \* records in the array appendUnique is called with
MaxBatch == 2        \* records in one fetched snapshot
TicksPerDay == 2     \* granularity of the time of day

\* ------------------------------------------------- program constants
EpochDay == 1        \* new Date(2019, 11, 2)
WindowDays == 7      \* syncUntil.setDate(syncUntil.getDate() + 7)
HistoricStartDay == 2070   \* const startDate = new Date(2025, 7, 1): 1 August 2025

moviesBucketKey == "movies.json"
lastSyncedBucketKey == "last_synced.txt"
BucketKeys == {moviesBucketKey, lastSyncedBucketKey}

\* ------------------------------------------------------------ records
\* The records the remote source publishes: the identifier tt1 under two
\* titles (so that which copy is kept can be told) and tt2.
Catalogue ==
    {[title |-> "A", imdb_id |-> "tt1", poster_url |-> "p"],
     [title |-> "B", imdb_id |-> "tt1", poster_url |-> "p"],
     [title |-> "C", imdb_id |-> "tt2", poster_url |-> "p"]}

\* a JSON element that is not a Movie, such as { bad: "data" }
BadElement == [bad |-> "data"]

\* sequences over S of length at most n
RECURSIVE SeqsUpTo(_, _)
SeqsUpTo(S, n) ==
    IF n = 0 THEN {<<>>}
    ELSE LET shorter == SeqsUpTo(S, n - 1)
         IN  shorter \cup {Append(s, x) : s \in {t \in shorter : Len(t) = n - 1}, x \in S}

\* ------------------------------------------------------ JSON and zod
\* A text is <<"json", v>> when it is the JSON of the value v, and
\* <<"text">> when it is not JSON at all.
JSONstringify(v) == <<"json", v>>
NotJson == <<"text">>
IsJson(text) == Len(text) = 2 /\ text[1] = "json"
JSONparse(text) == text[2]

\* Movie.safeParse(x).success: the three string fields are present
IsMovie(x) == {"title", "imdb_id", "poster_url"} \subseteq DOMAIN x

\* z.array(Movie).parse(data) accepts data
zArrayMovieAccepts(data) == \A k \in 1..Len(data) : IsMovie(data[k])

\* The text of last_synced.txt is the number of the calendar day it names
\* when it is a "YYYY-MM-DD" text, and NotIsoDate when it is any other text.
NotIsoDate == -1
\* z.iso.date().parse(data) accepts data
zIsoDateAccepts(data) == data # NotIsoDate

\* ------------------------------------------------------------- dates
\* date.setDate(date.getDate() + n)
AddDays(date, n) == date + n * TicksPerDay

\* date.toISOString().split("T")[0]: the calendar day of an instant
toISODate(date) == date \div TicksPerDay

\* new Date("YYYY-MM-DD"): midnight at the start of that calendar day
parseISODate(day) == day * TicksPerDay

getEarliestSync == parseISODate(EpochDay)

\* yesterday = new Date(); yesterday.setDate(yesterday.getDate() - 1)
getLatestSync(clock) == AddDays(clock, -1)

\* Outcome of getSyncUntil: an instant, or the thrown error
InvalidLastSync == [threw |-> "Invalid last sync date"]

\* a window of eight days
getSyncUntilEight(lastSyncedDate, clock) ==
    LET latestSync == getLatestSync(clock)
        syncUntil == AddDays(lastSyncedDate, WindowDays + 1)
    IN  IF lastSyncedDate > latestSync THEN InvalidLastSync
        ELSE IF syncUntil > latestSync THEN [date |-> latestSync]
        ELSE [date |-> syncUntil]

\* the window is not cut at yesterday
getSyncUntilUncapped(lastSyncedDate, clock) ==
    LET latestSync == getLatestSync(clock)
    IN  IF lastSyncedDate > latestSync THEN InvalidLastSync
        ELSE [date |-> AddDays(lastSyncedDate, WindowDays)]

\* a checkpoint after yesterday is not tested for
getSyncUntilUnchecked(lastSyncedDate, clock) ==
    LET latestSync == getLatestSync(clock)
        syncUntil == AddDays(lastSyncedDate, WindowDays)
    IN  IF syncUntil > latestSync THEN [date |-> latestSync]
        ELSE [date |-> syncUntil]

getSyncUntil(lastSyncedDate, clock) ==
    LET latestSync == getLatestSync(clock)
        syncUntil == AddDays(lastSyncedDate, WindowDays)
    IN  IF lastSyncedDate > latestSync THEN InvalidLastSync
        ELSE IF syncUntil > latestSync THEN [date |-> latestSync]
        ELSE [date |-> syncUntil]

\* the loop body runs once before the test (do ... while)
getDateRangeDoWhile(from, until) ==
    LET n == IF from <= until THEN (until - from) \div TicksPerDay + 1 ELSE 1
    IN  [k \in 1..n |-> AddDays(from, k - 1)]

\* the date until is left out (date < until)
RECURSIVE getDateRangeExclusive(_, _)
getDateRangeExclusive(from, until) ==
    IF from < until THEN <<from>> \o getDateRangeExclusive(AddDays(from, 1), until)
    ELSE <<>>

RECURSIVE getDateRange(_, _)
getDateRange(from, until) ==
    IF from <= until THEN <<from>> \o getDateRange(AddDays(from, 1), until)
    ELSE <<>>

\* lastSynced === syncUntil compares two Date objects by reference; what
\* getSyncUntil returns is always a freshly constructed Date, never the
\* object held in lastSynced.
SameDateObject(a, b) == FALSE

\* the first pending day is skipped
NextSyncDatesSkipping(lastSyncedDate, syncUntil) ==
    getDateRange(AddDays(lastSyncedDate, 2), syncUntil)

\* the window starts before the checkpoint
NextSyncDatesBackward(lastSyncedDate, syncUntil) ==
    getDateRange(AddDays(lastSyncedDate, -1), syncUntil)

\* the window starts at the checkpoint itself
NextSyncDatesInclusive(lastSyncedDate, syncUntil) ==
    getDateRange(lastSyncedDate, syncUntil)

\* the dates of getNextSyncDates once the checkpoint has been read
NextSyncDates(lastSyncedDate, syncUntil) ==
    IF SameDateObject(lastSyncedDate, syncUntil) THEN <<>>
    ELSE getDateRange(AddDays(lastSyncedDate, 1), syncUntil)

\* getUrl: the URL names the calendar day of the date
getUrl(date) == toISODate(date)

\* ------------------------------------------- the earlier full download
\* const startDate = new Date(2025, 7, 1)
startDate == parseISODate(HistoricStartDay)

\* getHistoricUrl: the URL names the calendar day of the date
getHistoricUrl(date) == toISODate(date)

\* while (date <= until) { urls.push(getHistoricUrl(date)); date.setDate(date.getDate() + 1) }
RECURSIVE HistoricUrlsFrom(_, _)
HistoricUrlsFrom(date, untilDate) ==
    IF date <= untilDate
    THEN <<getHistoricUrl(date)>> \o HistoricUrlsFrom(AddDays(date, 1), untilDate)
    ELSE <<>>

getAllHistoricUrls(untilDate) ==
    IF untilDate < startDate
    THEN [t |-> "throw", error |-> "Date must be on or after 2 December 2019"]
    ELSE [t |-> "urls", urls |-> HistoricUrlsFrom(startDate, untilDate)]

\* no test for an existing identifier
appendAlways(ms, newMovie) == Append(ms, newMovie)

\* a record whose identifier is present takes the place of the one present
appendReplacing(ms, newMovie) ==
    IF \E k \in 1..Len(ms) : ms[k].imdb_id = newMovie.imdb_id
    THEN [k \in 1..Len(ms) |-> IF ms[k].imdb_id = newMovie.imdb_id THEN newMovie ELSE ms[k]]
    ELSE Append(ms, newMovie)

\* ------------------------------------------------------------- merge
appendUnique(ms, newMovie) ==
    IF \E k \in 1..Len(ms) : ms[k].imdb_id = newMovie.imdb_id
    THEN ms
    ELSE Append(ms, newMovie)

\* Arrays are objects: a heap is the sequence of the arrays allocated so
\* far, and a reference is a position in it.  movies is the reference 1.
MoviesRef == 1

\* the record is pushed onto the array passed in, which is returned
appendUniqueInPlace(h, ref, newMovie) ==
    IF \E k \in 1..Len(h[ref]) : h[ref][k].imdb_id = newMovie.imdb_id
    THEN [heap |-> h, ref |-> ref]
    ELSE [heap |-> [h EXCEPT ![ref] = Append(@, newMovie)], ref |-> ref]

\* appendUnique on the heap: [...movies] and [...movies, newMovie] allocate
\* a new array and leave the one passed in alone
appendUniqueOnHeap(h, ref, newMovie) ==
    [heap |-> Append(h, appendUnique(h[ref], newMovie)), ref |-> Len(h) + 1]

\* for (const newMovie of newMovies) movies = appendUnique(movies, newMovie)
RECURSIVE FoldAppendUnique(_, _)
FoldAppendUnique(ms, newMovies) ==
    IF newMovies = <<>> THEN ms
    ELSE FoldAppendUnique(appendUnique(ms, Head(newMovies)), Tail(newMovies))

\* the collection is written whether or not it grew
ShouldWriteAlways(ms, prevCount) == Len(ms) >= prevCount

\* if (movies.length > previousCount)
ShouldWriteMovies(ms, prevCount) == Len(ms) > prevCount

\* ------------------------------------------------------------- remote
\* What fetch(url) can produce: a rejected promise, or a response.
Snapshots == SeqsUpTo(Catalogue, MaxBatch)
Responses ==
    {[kind |-> "reject"]}
    \cup {[kind |-> "response", status |-> s, body |-> NotJson] : s \in {404, 500, 200}}
    \cup {[kind |-> "response", status |-> 200, body |-> JSONstringify(v)] :
            v \in Snapshots \cup {<<BadElement>>}}

\* what fetch(url) produced, in short: "reject", or the status, with a
\* 200 told apart by whether its body is JSON
StatusOf(resp) ==
    IF resp.kind = "reject" THEN "reject"
    ELSE IF resp.status = 404 THEN "404"
    ELSE IF resp.status = 500 THEN "500"
    ELSE IF IsJson(resp.body) THEN "200 json"
    ELSE "200 text"

\* a body that fails validation is treated like one that fails to parse
fetchMoviesLenient(resp) ==
    IF resp.kind = "reject" THEN [t |-> "throw", error |-> "FetchError"]
    ELSE IF ~(resp.status \in 200..299)
         THEN IF resp.status = 404 THEN [t |-> "movies", movies |-> <<>>]
              ELSE [t |-> "null"]
    ELSE IF ~IsJson(resp.body) THEN [t |-> "movies", movies |-> <<>>]
    ELSE IF ~zArrayMovieAccepts(JSONparse(resp.body))
         THEN [t |-> "movies", movies |-> <<>>]
    ELSE [t |-> "movies", movies |-> JSONparse(resp.body)]

\* a 404 is handled like any other failure status
fetchMoviesNotFoundIsNull(resp) ==
    IF resp.kind = "reject" THEN [t |-> "throw", error |-> "FetchError"]
    ELSE IF ~(resp.status \in 200..299) THEN [t |-> "null"]
    ELSE IF ~IsJson(resp.body) THEN [t |-> "movies", movies |-> <<>>]
    ELSE IF ~zArrayMovieAccepts(JSONparse(resp.body))
         THEN [t |-> "throw", error |-> "ValidationError"]
    ELSE [t |-> "movies", movies |-> JSONparse(resp.body)]

\* fetchMovies(date), given what fetch produced
fetchMovies(resp) ==
    IF resp.kind = "reject" THEN [t |-> "throw", error |-> "FetchError"]
    ELSE IF ~(resp.status \in 200..299)
         THEN IF resp.status = 404 THEN [t |-> "movies", movies |-> <<>>]
              ELSE [t |-> "null"]
    ELSE IF ~IsJson(resp.body) THEN [t |-> "movies", movies |-> <<>>]
    ELSE IF ~zArrayMovieAccepts(JSONparse(resp.body))
         THEN [t |-> "throw", error |-> "ValidationError"]
    ELSE [t |-> "movies", movies |-> JSONparse(resp.body)]

\* -------------------------------------------------------------- state
VARIABLES
    now,            \* the wall clock, in ticks
    bucket,         \* the R2 bucket: key -> <<>> (no object) or <<body>>
    pc,             \* where the scheduled syncMovies call stands
    lastSynced,     \* syncMovies: the Date getLastSynced returned
    dates,          \* syncMovies: the dates of getNextSyncDates
    idx,            \* syncMovies: position of the for loop in dates
    movies,         \* syncMovies: the local variable movies
    previousCount,  \* syncMovies: movies.length before the day's fold
    error,          \* the error syncMovies rejected with, "" if none
    hThrewAt,       \* the step of syncMovies that rejected, "" if none
    \* history of the current run, for stating properties only
    hStart,         \* the bucket when the run started
    hDone,          \* the bucket when the last completed day finished
                    \* (when the for loop was entered, if none has)
    fetched,        \* the days whose URL this run has fetched, in order
    hMoviePuts,     \* puts of movies.json this run has issued
    hSyncedPuts,    \* puts of last_synced.txt this run has issued
    hDayPuts,       \* puts issued for the day being processed
    hDropped,       \* the fold of the day being processed dropped a record
    hGrewDays,      \* days of this run whose fold made movies longer
    hInitMovies,    \* this run found movies.json missing
    hProbeNull,     \* fetchMovies answered null for the observed day in this run
    hLastDone,      \* last day of this run that wrote the checkpoint, 0 if none
    hResult,        \* how the last fetchMovies of this run ended: "throw",
                    \* "null" or "movies", "" before the first
    hStatus,        \* what the last fetch(url) of this run produced, "" before the first
                    \* (recorded when a day is singled out for observation)
    hBatch,         \* the records fetchMovies returned for the day being processed, <<>>
                    \* if none (recorded for the day singled out for observation)
    hPrev,          \* how the last run at this clock value ended, "none" if none
                    \* (recorded when no day is singled out for observation)
    hAgain,         \* the current run follows another at the same clock value: how it ended
    lastDay,        \* the clock never passes the end of this day
    probe,          \* a day observed across runs, 0 if none is observed
    probeSeen,      \* "never" fetched, "null" (only null so far), or "movies"
    \* the remote source, when its data is held fixed
    remote,         \* day -> what fetch(url) answers for that day when it answers;
                    \* <<>> when the answer is free at every fetch
    hAborted,       \* with fixed remote data: some run has rejected so far
    \* index.ts fetch: the request handler (the read path)
    rpc,            \* where the handler stands: "idle", "get", "initMovies", "done"
    rmovies,        \* getMovies called by the handler: its local movies
    response,       \* the Response the handler returned, [status |-> 0] if none yet
    hReadSaw,       \* what the handler's bucket.get(moviesBucketKey) answered
    hReadPuts,      \* puts the handler has issued for this request
    hReadLeft,      \* movies.json as the handler's last bucket operation left it
    \* a second invocation of scheduled
    other,          \* the state of the run that is not executing a step now, when
                    \* two runs interleave; <<>> when there is only one
    \* getAllHistoricUrls
    untilArg,       \* the argument of the call
    urls,           \* its outcome, [t |-> "none"] before the call
    \* appendUnique, called on its own
    heap,           \* the arrays allocated so far; <<>> when it is not called
    newMovieArg,    \* the argument newMovie, <<>> when it is not called
    hExisting,      \* the content of the argument movies when the call was made
    resultRef       \* the reference returned, 0 before the call

vars == <<now, bucket, pc, lastSynced, dates, idx, movies,
          previousCount, error, hThrewAt, hResult, hStatus, hBatch, hDropped,
          hStart, hDone, fetched, hMoviePuts, hSyncedPuts, hDayPuts, hGrewDays,
          hInitMovies, hProbeNull, hLastDone, hPrev, hAgain, lastDay, probe, probeSeen,
          remote, hAborted, rpc, rmovies, response, hReadSaw, hReadPuts, hReadLeft,
          other, untilArg, urls, heap, newMovieArg, hExisting, resultRef>>

errVars == <<error, hThrewAt>>
local == <<lastSynced, dates, idx, movies, previousCount>>
runHist == <<hStart, hDone, fetched, hMoviePuts, hSyncedPuts, hDayPuts, hDropped,
             hGrewDays,
             hInitMovies, hProbeNull, hLastDone, hResult, hStatus, hBatch, hAgain>>
probeVars == <<lastDay, probe, probeSeen>>
readVars == <<rpc, rmovies, response, hReadSaw, hReadPuts, hReadLeft>>
mergeVars == <<heap, newMovieArg, hExisting, resultRef>>
urlVars == <<untilArg, urls, mergeVars>>

\* the last instant the clock reaches
MaxNow == lastDay * TicksPerDay + (TicksPerDay - 1)

\* the calendar day before the clock's day
Yesterday == toISODate(getLatestSync(now))

\* bucket.get(key): null or the object
HasObject(key) == bucket[key] # <<>>
ObjectBody(key) == bucket[key][1]
\* bucket.put(key, value)
Put(key, value) == [bucket EXCEPT ![key] = <<value>>]

EmptyBucket == [k \in BucketKeys |-> <<>>]

NoResponse == [status |-> 0]
NotCalled == [t |-> "none"]

\* appendUnique is not called on its own
NoMergeCall ==
    /\ heap = <<>>
    /\ newMovieArg = <<>>
    /\ hExisting = <<>>
    /\ resultRef = 0

InitCommon ==
    /\ now \in parseISODate(EpochDay)..MaxNow
    /\ pc = "idle"
    /\ lastSynced = 0
    /\ dates = <<>>
    /\ idx = 0
    /\ movies = <<>>
    /\ previousCount = 0
    /\ error = ""
    /\ hThrewAt = ""
    /\ hStart = EmptyBucket
    /\ hDone = EmptyBucket
    /\ fetched = <<>>
    /\ hMoviePuts = 0
    /\ hSyncedPuts = 0
    /\ hDayPuts = 0
    /\ hDropped = FALSE
    /\ hGrewDays = 0
    /\ hInitMovies = FALSE
    /\ hProbeNull = FALSE
    /\ hLastDone = 0
    /\ hResult = ""
    /\ hStatus = ""
    /\ hBatch = <<>>
    /\ hPrev = "none"
    /\ hAgain = "none"
    /\ probeSeen = "never"
    /\ hAborted = FALSE
    /\ rpc = "idle"
    /\ rmovies = <<>>
    /\ response = NoResponse
    /\ hReadSaw = <<>>
    /\ hReadPuts = 0
    /\ hReadLeft = <<>>
    /\ urls = NotCalled

Init ==
    /\ NoMergeCall
    /\ probe = 0
    /\ lastDay = MaxDay
    /\ bucket = EmptyBucket
    /\ remote = <<>>
    /\ untilArg = 0
    /\ other = <<>>
    /\ InitCommon

\* the same program, with one calendar day singled out for observation
InitProbe ==
    /\ NoMergeCall
    /\ probe \in EpochDay..ProbeMaxDay
    /\ lastDay = ProbeMaxDay
    /\ bucket = EmptyBucket
    /\ remote = <<>>
    /\ untilArg = 0
    /\ other = <<>>
    /\ InitCommon

\* what the bucket can hold when the worker is deployed over storage that
\* was written before: any checkpoint day, the day after the last day of
\* the clock included, a checkpoint that is not a date, and any text under
\* movies.json
StoredCollections ==
    {c \in SeqsUpTo(Catalogue, Cardinality(Catalogue)) : \A i, j \in 1..Len(c) : c[i].imdb_id = c[j].imdb_id => i = j}
StoredBuckets ==
    {[k \in BucketKeys |-> IF k = lastSyncedBucketKey THEN c ELSE m] :
        c \in {<<>>, <<NotIsoDate>>} \cup {<<d>> : d \in (EpochDay - 1)..(StoredMaxDay + 1)},
        m \in {<<>>, <<NotJson>>, <<JSONstringify(<<BadElement>>)>>}
               \cup {<<JSONstringify(v)>> : v \in StoredCollections}}

\* the same program, with requests to the read path
InitRead ==
    /\ NoMergeCall
    /\ probe = 0
    /\ lastDay = ReadMaxDay
    /\ bucket = EmptyBucket
    /\ remote = <<>>
    /\ untilArg = 0
    /\ other = <<>>
    /\ InitCommon

\* what the remote source holds for a day when its data is fixed: no
\* snapshot, a failure, a body that is not JSON, or a snapshot of at most
\* one record
RemoteData ==
    {[kind |-> "response", status |-> st, body |-> NotJson] : st \in {404, 500, 200}}
    \cup {[kind |-> "response", status |-> 200, body |-> JSONstringify(v)] :
            v \in {<<>>} \cup {<<m>> : m \in Catalogue}}

\* the same program against fixed remote data, on the day after the last
\* published day
InitRetry ==
    /\ NoMergeCall
    /\ probe = 0
    /\ lastDay = RetryDays + 1
    /\ bucket = EmptyBucket
    /\ remote \in [EpochDay..RetryDays -> RemoteData]
    /\ untilArg = 0
    /\ other = <<>>
    /\ InitCommon
    /\ now >= parseISODate(lastDay)

\* the arguments getAllHistoricUrls is called with: the instants of the
\* days around 2 December 2019 and around startDate
UntilInputs ==
    {t \in parseISODate(EpochDay - UrlSpan)..(parseISODate(EpochDay + UrlSpan + 1) - 1) : TRUE}
    \cup {t \in parseISODate(HistoricStartDay - UrlSpan)..
                 (parseISODate(HistoricStartDay + UrlSpan + 1) - 1) : TRUE}

\* a call of getAllHistoricUrls, with no run and no request in progress
InitUrls ==
    /\ NoMergeCall
    /\ probe = 0
    /\ lastDay = EpochDay
    /\ bucket = EmptyBucket
    /\ remote = <<>>
    /\ untilArg \in UntilInputs
    /\ other = <<>>
    /\ InitCommon

\* the arrays appendUnique is called with: any records in any order, an
\* identifier twice included
ExistingInputs == SeqsUpTo(Catalogue, MaxExisting)

\* a call of appendUnique, with no run and no request in progress
InitAppend ==
    /\ \E ms \in ExistingInputs : heap = <<ms>> /\ hExisting = ms
    /\ newMovieArg \in Catalogue
    /\ resultRef = 0
    /\ probe = 0
    /\ lastDay = EpochDay
    /\ bucket = EmptyBucket
    /\ remote = <<>>
    /\ untilArg = 0
    /\ other = <<>>
    /\ InitCommon

\* a run that has not started
IdleRun ==
    [pc |-> "idle", lastSynced |-> 0, dates |-> <<>>, idx |-> 0, movies |-> <<>>,
     previousCount |-> 0, error |-> "", hThrewAt |-> "",
     hStart |-> EmptyBucket, hDone |-> EmptyBucket, fetched |-> <<>>,
     hMoviePuts |-> 0, hSyncedPuts |-> 0, hDayPuts |-> 0, hDropped |-> FALSE,
     hGrewDays |-> 0, hInitMovies |-> FALSE, hProbeNull |-> FALSE, hLastDone |-> 0,
     hResult |-> "", hStatus |-> "", hBatch |-> <<>>, hAgain |-> "none"]

\* the same program, with two invocations of scheduled in progress at once
InitTwo ==
    /\ NoMergeCall
    /\ probe = 0
    /\ lastDay = TwoMaxDay
    /\ bucket = EmptyBucket
    /\ remote = <<>>
    /\ other = IdleRun
    /\ untilArg = 0
    /\ InitCommon

\* the same program with the clock held at any one instant
InitLive ==
    /\ NoMergeCall
    /\ probe = 0
    /\ lastDay = LiveMaxDay
    /\ bucket = EmptyBucket
    /\ remote = <<>>
    /\ untilArg = 0
    /\ other = <<>>
    /\ InitCommon

\* the same program over a bucket that already holds objects
InitStored ==
    /\ NoMergeCall
    /\ probe = 0
    /\ lastDay = StoredMaxDay
    /\ bucket \in StoredBuckets
    /\ remote = <<>>
    /\ untilArg = 0
    /\ other = <<>>
    /\ InitCommon

\* ------------------------------------------------------------ actions
\* syncMovies rejects with e
Throw(e) ==
    /\ pc' = "threw"
    /\ error' = e
    /\ hThrewAt' = pc

\* the external clock advances between two scheduled runs
Tick ==
    /\ pc = "idle"
    /\ now < MaxNow
    /\ now' = now + 1
    /\ hPrev' = "none"
    /\ UNCHANGED <<remote, hAborted, other, readVars, urlVars, bucket, pc, local, errVars, runHist, probeVars>>

\* index.ts scheduled: await syncMovies(env.MOVIES_BUCKET)
Scheduled ==
    /\ pc = "idle"
    /\ pc' = "getLastSynced"
    /\ hStart' = bucket
    /\ hDone' = bucket
    /\ hAgain' = hPrev
    /\ UNCHANGED <<remote, hAborted, other, readVars, urlVars, now, bucket, local, errVars, fetched, hMoviePuts, hSyncedPuts,
                   hDayPuts, hDropped, hGrewDays, hInitMovies, hProbeNull, hLastDone, hResult, hStatus, hBatch,
                   hPrev, probeVars>>

\* getLastSynced: bucket.get(lastSyncedBucketKey) rejects
GetLastSyncedFails ==
    /\ pc = "getLastSynced"
    /\ Throw("StoreError")
    /\ UNCHANGED <<remote, hAborted, other, readVars, urlVars, now, bucket, local, runHist, hPrev, probeVars>>

\* the earliest sync date itself is taken as the checkpoint
GetLastSyncedMissingAtEpoch ==
    /\ pc = "getLastSynced"
    /\ ~HasObject(lastSyncedBucketKey)
    /\ lastSynced' = getEarliestSync
    /\ pc' = "initLastSynced"
    /\ UNCHANGED <<remote, hAborted, other, readVars, urlVars, now, bucket, dates, idx, movies, previousCount, errVars,
                   runHist, hPrev, probeVars>>

\* getLastSynced: no object, so the checkpoint becomes the day before the
\* earliest sync, which is then put
GetLastSyncedMissing ==
    /\ pc = "getLastSynced"
    /\ ~HasObject(lastSyncedBucketKey)
    /\ lastSynced' = AddDays(getEarliestSync, -1)
    /\ pc' = "initLastSynced"
    /\ UNCHANGED <<remote, hAborted, other, readVars, urlVars, now, bucket, dates, idx, movies, previousCount, errVars,
                   runHist, hPrev, probeVars>>

\* getLastSynced: the object's text is validated and parsed as an ISO date
GetLastSyncedPresent ==
    /\ pc = "getLastSynced"
    /\ HasObject(lastSyncedBucketKey)
    /\ LET data == ObjectBody(lastSyncedBucketKey)
       IN  IF ~zIsoDateAccepts(data)
           THEN /\ Throw("ValidationError")
                /\ UNCHANGED lastSynced
           ELSE /\ lastSynced' = parseISODate(data)
                /\ pc' = "getSyncUntil"
                /\ UNCHANGED errVars
    /\ UNCHANGED <<remote, hAborted, other, readVars, urlVars, now, bucket, dates, idx, movies, previousCount,
                   runHist, hPrev, probeVars>>

\* setLastSynced(bucket, date) called by getLastSynced
InitLastSyncedPut ==
    /\ pc = "initLastSynced"
    /\ hSyncedPuts' = hSyncedPuts + 1
    /\ \/ /\ bucket' = Put(lastSyncedBucketKey, toISODate(lastSynced))
          /\ pc' = "getSyncUntil"
          /\ UNCHANGED errVars
       \/ /\ Throw("StoreError")
          /\ UNCHANGED bucket
    /\ UNCHANGED <<remote, hAborted, other, readVars, urlVars, now, local, hStart, hDone, fetched, hMoviePuts, hDayPuts, hDropped,
                   hGrewDays, hInitMovies, hProbeNull, hLastDone, hResult, hStatus, hBatch, hAgain, hPrev,
                   probeVars>>

\* getNextSyncDates after the checkpoint is read, and the test
\* dates.length === 0 of syncMovies
ComputeSyncDates ==
    /\ pc = "getSyncUntil"
    /\ LET until == getSyncUntil(lastSynced, now)
       IN  IF until = InvalidLastSync
           THEN /\ Throw("Invalid last sync date")
                /\ UNCHANGED dates
           ELSE /\ dates' = NextSyncDates(lastSynced, until.date)
                /\ pc' = IF Len(dates') = 0 THEN "returned" ELSE "getMovies"
                /\ UNCHANGED errVars
    /\ UNCHANGED <<remote, hAborted, other, readVars, urlVars, now, bucket, lastSynced, idx, movies, previousCount,
                   runHist, hPrev, probeVars>>

\* getMovies: bucket.get(moviesBucketKey) rejects
GetMoviesFails ==
    /\ pc = "getMovies"
    /\ Throw("StoreError")
    /\ UNCHANGED <<remote, hAborted, other, readVars, urlVars, now, bucket, local, runHist, hPrev, probeVars>>

\* getMovies: no object, so the empty collection is put and returned
GetMoviesMissing ==
    /\ pc = "getMovies"
    /\ ~HasObject(moviesBucketKey)
    /\ movies' = <<>>
    /\ hInitMovies' = TRUE
    /\ pc' = "initMovies"
    /\ UNCHANGED <<remote, hAborted, other, readVars, urlVars, now, bucket, lastSynced, dates, idx, previousCount, errVars,
                   hStart, hDone, fetched, hMoviePuts, hSyncedPuts, hDayPuts, hDropped,
                   hGrewDays, hProbeNull, hLastDone, hResult, hStatus, hBatch, hAgain, hPrev, probeVars>>

\* content that does not parse or validate is read as the empty collection
GetMoviesPresentLenient ==
    /\ pc = "getMovies"
    /\ HasObject(moviesBucketKey)
    /\ LET text == ObjectBody(moviesBucketKey)
       IN  movies' = IF IsJson(text) /\ zArrayMovieAccepts(JSONparse(text))
                     THEN JSONparse(text) ELSE <<>>
    /\ idx' = 1
    /\ pc' = "fetch"
    /\ hDone' = bucket
    /\ UNCHANGED <<remote, hAborted, other, readVars, urlVars, now, bucket, lastSynced, dates, previousCount,
                   errVars, hStart, fetched, hMoviePuts, hSyncedPuts, hDayPuts, hDropped,
                   hGrewDays, hInitMovies, hProbeNull, hLastDone, hResult, hStatus, hBatch, hAgain,
                   hPrev, probeVars>>

\* getMovies: the object is parsed as JSON and validated; the for loop
\* of syncMovies is entered
GetMoviesPresent ==
    /\ pc = "getMovies"
    /\ HasObject(moviesBucketKey)
    /\ LET text == ObjectBody(moviesBucketKey)
       IN  IF ~IsJson(text)
           THEN /\ Throw("SyntaxError")
                /\ UNCHANGED <<movies, idx, hDone>>
           ELSE IF ~zArrayMovieAccepts(JSONparse(text))
           THEN /\ Throw("ValidationError")
                /\ UNCHANGED <<movies, idx, hDone>>
           ELSE /\ movies' = JSONparse(text)
                /\ idx' = 1
                /\ pc' = "fetch"
                /\ hDone' = bucket
                /\ UNCHANGED errVars
    /\ UNCHANGED <<remote, hAborted, other, readVars, urlVars, now, bucket, lastSynced, dates, previousCount,
                   hStart, fetched, hMoviePuts, hSyncedPuts, hDayPuts, hDropped,
                   hGrewDays, hInitMovies, hProbeNull, hLastDone, hResult, hStatus, hBatch, hAgain,
                   hPrev, probeVars>>

\* setMovies(bucket, movies) called by getMovies
InitMoviesPut ==
    /\ pc = "initMovies"
    /\ hMoviePuts' = hMoviePuts + 1
    /\ \/ /\ bucket' = Put(moviesBucketKey, JSONstringify(movies))
          /\ idx' = 1
          /\ pc' = "fetch"
          /\ hDone' = bucket'
          /\ UNCHANGED errVars
       \/ /\ Throw("StoreError")
          /\ UNCHANGED <<bucket, idx, hDone>>
    /\ UNCHANGED <<remote, hAborted, other, readVars, urlVars, now, lastSynced, dates, movies, previousCount,
                   hStart, fetched, hSyncedPuts, hDayPuts, hDropped, hGrewDays,
                   hInitMovies, hProbeNull, hLastDone, hResult, hStatus, hBatch, hAgain, hPrev, probeVars>>

\* the for loop moves to the next date, or syncMovies returns
NextDate ==
    /\ hDropped' = FALSE
    /\ IF idx < Len(dates)
       THEN /\ idx' = idx + 1
            /\ pc' = "fetch"
       ELSE /\ idx' = idx
            /\ pc' = "returned"

\* what the observed day has been seen to answer
Observe(day, result) ==
    IF day # probe THEN probeSeen
    ELSE IF result.t = "movies" THEN "movies"
    ELSE IF result.t = "null" /\ probeSeen = "never" THEN "null"
    ELSE probeSeen

\* the rejection is caught and the loop goes on
FetchThrowsContinues(result) ==
    /\ result.t = "throw"
    /\ NextDate
    /\ UNCHANGED <<bucket, lastSynced, dates, movies, previousCount, errVars,
                   hProbeNull, hGrewDays>>

\* fetchMovies(date) rejects: syncMovies rejects with the same error
FetchThrows(result) ==
    /\ result.t = "throw"
    /\ Throw(result.error)
    /\ UNCHANGED <<bucket, local, hProbeNull, hGrewDays, hDropped>>

\* null is handled like an empty day
FetchNullAsEmpty(result) ==
    /\ result.t = "null"
    /\ previousCount' = Len(movies)
    /\ pc' = "setLastSynced"
    /\ hProbeNull' = (hProbeNull \/ getUrl(dates[idx]) = probe)
    /\ UNCHANGED <<bucket, lastSynced, dates, idx, movies, errVars, hGrewDays,
                   hDropped>>

\* a null day ends the loop (break)
FetchNullBreaks(result) ==
    /\ result.t = "null"
    /\ hDropped' = FALSE
    /\ pc' = "returned"
    /\ hProbeNull' = (hProbeNull \/ getUrl(dates[idx]) = probe)
    /\ UNCHANGED <<bucket, lastSynced, dates, idx, movies, previousCount, errVars,
                   hGrewDays>>

\* newMovies === null: continue
FetchNull(result) ==
    /\ result.t = "null"
    /\ NextDate
    /\ hProbeNull' = (hProbeNull \/ getUrl(dates[idx]) = probe)
    /\ UNCHANGED <<bucket, lastSynced, dates, movies, previousCount, errVars,
                   hGrewDays>>

\* the day's records are folded into movies
FetchMerges(result) ==
    /\ result.t = "movies"
    /\ previousCount' = Len(movies)
    /\ movies' = FoldAppendUnique(movies, result.movies)
    /\ hDropped' = (Len(movies') - Len(movies) < Len(result.movies))
    /\ pc' = IF ShouldWriteMovies(movies', previousCount')
             THEN "setMovies" ELSE "setLastSynced"
    /\ hGrewDays' = IF Len(movies') > Len(movies) THEN hGrewDays + 1 ELSE hGrewDays
    /\ UNCHANGED <<bucket, lastSynced, dates, idx, errVars, hProbeNull>>

\* what fetch(url) can produce for a day: anything, or, when the remote
\* data is fixed, the day's answer or a rejection (a timeout, a transport error)
Answers(day) ==
    IF remote = <<>> THEN Responses
    ELSE {remote[day], [kind |-> "reject"]}

\* one iteration of the for loop up to the fold: fetch(url) answers resp
Fetch ==
    /\ pc = "fetch"
    /\ \E resp \in Answers(getUrl(dates[idx])) :
         LET result == fetchMovies(resp)
         IN  /\ \/ FetchThrows(result)
                \/ FetchNull(result)
                \/ FetchMerges(result)
             /\ hResult' = result.t
             /\ hStatus' = IF probe = 0 THEN "" ELSE StatusOf(resp)
             /\ hBatch' = IF getUrl(dates[idx]) = probe /\ result.t = "movies"
                          THEN result.movies ELSE <<>>
             /\ probeSeen' = Observe(getUrl(dates[idx]), result)
    /\ fetched' = Append(fetched, getUrl(dates[idx]))
    /\ hDayPuts' = 0
    /\ UNCHANGED <<remote, hAborted, other, readVars, urlVars, now, hStart, hDone, hMoviePuts, hSyncedPuts, hInitMovies,
                   hLastDone, hAgain, hPrev, lastDay, probe>>

\* setMovies is not awaited: its rejection goes unnoticed
SetMoviesUnawaited ==
    /\ pc = "setMovies"
    /\ hMoviePuts' = hMoviePuts + 1
    /\ hDayPuts' = hDayPuts + 1
    /\ pc' = "setLastSynced"
    /\ \/ bucket' = Put(moviesBucketKey, JSONstringify(movies))
       \/ UNCHANGED bucket
    /\ UNCHANGED <<remote, hAborted, other, readVars, urlVars, now, local, errVars, hStart, hDone, fetched, hSyncedPuts,
                   hDropped, hGrewDays, hInitMovies, hProbeNull, hLastDone,
                   hResult, hStatus, hBatch, hAgain, hPrev, probeVars>>

\* await setMovies(bucket, movies)
SetMovies ==
    /\ pc = "setMovies"
    /\ hMoviePuts' = hMoviePuts + 1
    /\ hDayPuts' = hDayPuts + 1
    /\ \/ /\ bucket' = Put(moviesBucketKey, JSONstringify(movies))
          /\ pc' = "setLastSynced"
          /\ UNCHANGED errVars
       \/ /\ Throw("StoreError")
          /\ UNCHANGED bucket
    /\ UNCHANGED <<remote, hAborted, other, readVars, urlVars, now, local, hStart, hDone, fetched, hSyncedPuts, hDropped,
                   hGrewDays, hInitMovies, hProbeNull, hLastDone, hResult, hStatus, hBatch,
                   hAgain, hPrev, probeVars>>

\* await setLastSynced(bucket, date), the last statement of the loop body
SetLastSynced ==
    /\ pc = "setLastSynced"
    /\ hSyncedPuts' = hSyncedPuts + 1
    /\ hDayPuts' = hDayPuts + 1
    /\ \/ /\ bucket' = Put(lastSyncedBucketKey, toISODate(dates[idx]))
          /\ NextDate
          /\ hDone' = bucket'
          /\ hLastDone' = getUrl(dates[idx])
          /\ hBatch' = <<>>
          /\ UNCHANGED errVars
       \/ /\ Throw("StoreError")
          /\ UNCHANGED <<bucket, idx, hDropped, hDone, hLastDone, hBatch>>
    /\ UNCHANGED <<remote, hAborted, other, readVars, urlVars, now, lastSynced, dates, movies, previousCount, hStart,
                   fetched, hMoviePuts, hGrewDays, hInitMovies, hProbeNull,
                   hResult, hStatus, hAgain, hPrev, probeVars>>

\* the promise of syncMovies settles; the worker waits for the next trigger
Finish ==
    /\ pc \in {"returned", "threw"}
    /\ pc' = "idle"
    /\ hPrev' = IF probe = 0 THEN pc ELSE "none"
    /\ error' = ""
    /\ hThrewAt' = ""
    /\ lastSynced' = 0
    /\ dates' = <<>>
    /\ idx' = 0
    /\ movies' = <<>>
    /\ previousCount' = 0
    /\ hStart' = EmptyBucket
    /\ hDone' = EmptyBucket
    /\ fetched' = <<>>
    /\ hMoviePuts' = 0
    /\ hSyncedPuts' = 0
    /\ hDayPuts' = 0
    /\ hDropped' = FALSE
    /\ hGrewDays' = 0
    /\ hInitMovies' = FALSE
    /\ hProbeNull' = FALSE
    /\ hLastDone' = 0
    /\ hResult' = ""
    /\ hStatus' = ""
    /\ hBatch' = <<>>
    /\ hAgain' = "none"
    /\ hAborted' = (hAborted \/ (remote # <<>> /\ pc = "threw"))
    /\ UNCHANGED <<remote, other, readVars, urlVars, now, bucket, probeVars>>

\* ------------------------------------------------ the request handler
\* what the handler leaves alone: the clock and the scheduled run
syncVars == <<now, pc, local, errVars, runHist, hPrev, probeVars, remote, hAborted, other>>

\* the Workers runtime answers for a handler whose promise rejected
ErrorResponse(e) == [status |-> 500, body |-> e]
OkResponse(ms) == [status |-> 200, body |-> JSONstringify(ms)]

\* a request arrives: any path but "/" is answered 404 at once, "/" calls
\* getMovies, which calls bucket.get(moviesBucketKey)
Request ==
    /\ rpc = "idle"
    /\ \E pathname \in {"/", "/favicon.ico"} :
         IF pathname # "/"
         THEN /\ response' = [status |-> 404, body |-> "Not Found"]
              /\ rpc' = "done"
         ELSE /\ response' = NoResponse
              /\ rpc' = "get"
    /\ UNCHANGED <<bucket, syncVars, rmovies, hReadSaw, hReadPuts, hReadLeft, urlVars>>

\* getMovies: bucket.get(moviesBucketKey) rejects
ReadGetFails ==
    /\ rpc = "get"
    /\ response' = ErrorResponse("StoreError")
    /\ rpc' = "done"
    /\ UNCHANGED <<bucket, syncVars, rmovies, hReadSaw, hReadPuts, hReadLeft, urlVars>>

\* getMovies: no object, so the empty collection is to be put
ReadGetMissing ==
    /\ rpc = "get"
    /\ ~HasObject(moviesBucketKey)
    /\ rmovies' = <<>>
    /\ hReadSaw' = bucket[moviesBucketKey]
    /\ hReadLeft' = bucket[moviesBucketKey]
    /\ rpc' = "initMovies"
    /\ UNCHANGED <<bucket, syncVars, response, hReadPuts, urlVars>>

\* the object is put again before it is returned
ReadGetPresentRewrites ==
    /\ rpc = "get"
    /\ HasObject(moviesBucketKey)
    /\ rmovies' = JSONparse(ObjectBody(moviesBucketKey))
    /\ hReadSaw' = bucket[moviesBucketKey]
    /\ hReadLeft' = bucket[moviesBucketKey]
    /\ rpc' = "initMovies"
    /\ UNCHANGED <<bucket, syncVars, response, hReadPuts, urlVars>>

\* the handler answers with the empty collection whatever is stored
ReadGetPresentEmpty ==
    /\ rpc = "get"
    /\ HasObject(moviesBucketKey)
    /\ rmovies' = <<>>
    /\ response' = OkResponse(rmovies')
    /\ hReadSaw' = bucket[moviesBucketKey]
    /\ hReadLeft' = bucket[moviesBucketKey]
    /\ rpc' = "done"
    /\ UNCHANGED <<bucket, syncVars, hReadPuts, urlVars>>

\* getMovies: the object is parsed and validated, and the handler
\* answers with JSON.stringify(movies)
ReadGetPresent ==
    /\ rpc = "get"
    /\ HasObject(moviesBucketKey)
    /\ LET text == ObjectBody(moviesBucketKey)
       IN  IF ~IsJson(text)
           THEN /\ response' = ErrorResponse("SyntaxError")
                /\ UNCHANGED rmovies
           ELSE IF ~zArrayMovieAccepts(JSONparse(text))
           THEN /\ response' = ErrorResponse("ValidationError")
                /\ UNCHANGED rmovies
           ELSE /\ rmovies' = JSONparse(text)
                /\ response' = OkResponse(rmovies')
    /\ hReadSaw' = bucket[moviesBucketKey]
    /\ hReadLeft' = bucket[moviesBucketKey]
    /\ rpc' = "done"
    /\ UNCHANGED <<bucket, syncVars, hReadPuts, urlVars>>

\* setMovies(bucket, movies) called by getMovies, then the answer
ReadInitPut ==
    /\ rpc = "initMovies"
    /\ hReadPuts' = hReadPuts + 1
    /\ \/ /\ bucket' = Put(moviesBucketKey, JSONstringify(rmovies))
          /\ hReadLeft' = bucket'[moviesBucketKey]
          /\ response' = OkResponse(rmovies)
       \/ /\ response' = ErrorResponse("StoreError")
          /\ UNCHANGED <<bucket, hReadLeft>>
    /\ rpc' = "done"
    /\ UNCHANGED <<syncVars, rmovies, hReadSaw, urlVars>>

\* the Response has been sent; the handler waits for the next request
ReadDone ==
    /\ rpc = "done"
    /\ rpc' = "idle"
    /\ rmovies' = <<>>
    /\ response' = NoResponse
    /\ hReadSaw' = <<>>
    /\ hReadPuts' = 0
    /\ hReadLeft' = <<>>
    /\ UNCHANGED <<bucket, syncVars, urlVars>>

\* two runs interleave: the run that executed the last step waits at its
\* await, and the other run executes the next one
Switch ==
    /\ other # <<>>
    /\ other' =
          [pc |-> pc, lastSynced |-> lastSynced, dates |-> dates, idx |-> idx,
           movies |-> movies, previousCount |-> previousCount, error |-> error,
           hThrewAt |-> hThrewAt, hStart |-> hStart, hDone |-> hDone,
           fetched |-> fetched, hMoviePuts |-> hMoviePuts, hSyncedPuts |-> hSyncedPuts,
           hDayPuts |-> hDayPuts, hDropped |-> hDropped, hGrewDays |-> hGrewDays,
           hInitMovies |-> hInitMovies, hProbeNull |-> hProbeNull,
           hLastDone |-> hLastDone, hResult |-> hResult, hStatus |-> hStatus, hBatch |-> hBatch,
           hAgain |-> hAgain]
    /\ pc' = other.pc
    /\ lastSynced' = other.lastSynced
    /\ dates' = other.dates
    /\ idx' = other.idx
    /\ movies' = other.movies
    /\ previousCount' = other.previousCount
    /\ error' = other.error
    /\ hThrewAt' = other.hThrewAt
    /\ hStart' = other.hStart
    /\ hDone' = other.hDone
    /\ fetched' = other.fetched
    /\ hMoviePuts' = other.hMoviePuts
    /\ hSyncedPuts' = other.hSyncedPuts
    /\ hDayPuts' = other.hDayPuts
    /\ hDropped' = other.hDropped
    /\ hGrewDays' = other.hGrewDays
    /\ hInitMovies' = other.hInitMovies
    /\ hProbeNull' = other.hProbeNull
    /\ hLastDone' = other.hLastDone
    /\ hResult' = other.hResult
    /\ hStatus' = other.hStatus
    /\ hBatch' = other.hBatch
    /\ hAgain' = other.hAgain
    /\ UNCHANGED <<now, bucket, hPrev, probeVars, remote, hAborted, readVars, urlVars>>

\* appendUnique(movies, newMovie) is called
CallAppendUnique ==
    /\ heap # <<>>
    /\ resultRef = 0
    /\ LET r == appendUniqueOnHeap(heap, MoviesRef, newMovieArg)
       IN  /\ heap' = r.heap
           /\ resultRef' = r.ref
    /\ UNCHANGED <<bucket, syncVars, readVars, untilArg, urls, newMovieArg, hExisting>>

\* getAllHistoricUrls(until) is called
CallGetAllHistoricUrls ==
    /\ urls = NotCalled
    /\ urls' = getAllHistoricUrls(untilArg)
    /\ UNCHANGED <<bucket, syncVars, readVars, untilArg, mergeVars>>

Next ==
    \/ Tick
    \/ Scheduled
    \/ GetLastSyncedFails
    \/ GetLastSyncedMissing
    \/ GetLastSyncedPresent
    \/ InitLastSyncedPut
    \/ ComputeSyncDates
    \/ GetMoviesFails
    \/ GetMoviesMissing
    \/ GetMoviesPresent
    \/ InitMoviesPut
    \/ Fetch
    \/ SetMovies
    \/ SetLastSynced
    \/ Finish

Spec == Init /\ [][Next]_vars

SpecProbe == InitProbe /\ [][Next]_vars

SpecStored == InitStored /\ [][Next]_vars

SpecRetry == InitRetry /\ [][Next]_vars

SpecUrls == InitUrls /\ [][CallGetAllHistoricUrls]_vars

SpecAppend == InitAppend /\ [][CallAppendUnique]_vars

\* the steps of a run when no operation of the bucket rejects
InitLastSyncedPutOk == InitLastSyncedPut /\ pc' # "threw"
InitMoviesPutOk == InitMoviesPut /\ pc' # "threw"
SetMoviesOk == SetMovies /\ pc' # "threw"
SetLastSyncedOk == SetLastSynced /\ pc' # "threw"

\* syncMovies invoked again and again at one clock value, over a bucket
\* whose operations all succeed
NextLive ==
    \/ Scheduled
    \/ GetLastSyncedMissing
    \/ GetLastSyncedPresent
    \/ InitLastSyncedPutOk
    \/ ComputeSyncDates
    \/ GetMoviesMissing
    \/ GetMoviesPresent
    \/ InitMoviesPutOk
    \/ Fetch
    \/ SetMoviesOk
    \/ SetLastSyncedOk
    \/ Finish

\* the trigger keeps firing and the runtime resumes every awaited step
SpecLive == InitLive /\ [][NextLive]_vars /\ WF_vars(NextLive)

\* two scheduled runs at once
NextTwo ==
    \/ Next
    \/ Switch

SpecTwo == InitTwo /\ [][NextTwo]_vars

\* the scheduled runs together with the requests of the read path
NextRead ==
    \/ Next
    \/ Request
    \/ ReadGetFails
    \/ ReadGetMissing
    \/ ReadGetPresent
    \/ ReadInitPut
    \/ ReadDone

SpecRead == InitRead /\ [][NextRead]_vars

\* --------------------------------------------------------- properties
\* the persisted checkpoint and collection of a bucket b that holds them
Checkpoint(b) == b[lastSyncedBucketKey][1]
Collection(b) == JSONparse(b[moviesBucketKey][1])

\* what getLastSynced and getMovies answer on a bucket b: a missing
\* object reads as the value it is initialised to
ReadCheckpoint(b) ==
    IF b[lastSyncedBucketKey] = <<>> THEN toISODate(AddDays(getEarliestSync, -1))
    ELSE Checkpoint(b)
ReadCollection(b) ==
    IF b[moviesBucketKey] = <<>> THEN <<>> ELSE Collection(b)

IsPrefix(a, b) == Len(a) <= Len(b) /\ SubSeq(b, 1, Len(a)) = a

UniqueIds(ms) ==
    \A i, j \in 1..Len(ms) : ms[i].imdb_id = ms[j].imdb_id => i = j

\* syncMovies rejected while it was processing a day of the window
FailedInDay == pc = "threw" /\ idx >= 1

\* the days of the first n dates of the window
RECURSIVE WindowDaysUpTo(_)
WindowDaysUpTo(n) ==
    IF n = 0 THEN <<>> ELSE Append(WindowDaysUpTo(n - 1), getUrl(dates[n]))

\* C1 (as stated): whatever makes the processing of a day fail, the
\* persisted collection and checkpoint are those left by the last day
\* that completed, as if the failing day had never been attempted.
C1_AsIfNeverAttempted == FailedInDay => bucket = hDone

\* C1 (amended): when the processing of a day fails, the persisted
\* checkpoint is the one left by the last completed day; the persisted
\* collection is too when the fetch, the validation or the collection put
\* failed, but when the checkpoint put fails the collection already holds
\* the day's new records after those of the last completed day.
C1_FailedDayKeepsCheckpoint ==
    FailedInDay =>
        /\ bucket[lastSyncedBucketKey] = hDone[lastSyncedBucketKey]
        /\ hThrewAt \in {"fetch", "setMovies", "setLastSynced"}
        /\ hThrewAt \in {"fetch", "setMovies"} => bucket = hDone
        /\ hThrewAt = "setLastSynced" =>
              /\ bucket[moviesBucketKey] = <<JSONstringify(movies)>>
              /\ IsPrefix(Collection(hDone), movies)

\* the checkpoint put of a day failed after its collection put, in a run
\* that had completed an earlier day
C1_CheckpointPutFailsAfterCollectionPut ==
    /\ FailedInDay
    /\ hThrewAt = "setLastSynced"
    /\ hLastDone # 0
    /\ bucket # hDone

\* C2 (as stated): when fetchMovies answers null for a pending day d, the
\* run returns and the checkpoint it leaves is strictly before d, whatever
\* the other days of the window answer.
C2_CheckpointStaysBeforeNullDay ==
    (pc = "returned" /\ hProbeNull) => Checkpoint(bucket) < probe

\* the observed day answers null in this step
ProbeAnswersNull == ~hProbeNull /\ hProbeNull'

C2_ReturnedAfterNullDay ==
    (pc = "returned" /\ hProbeNull) =>
        /\ fetched = WindowDaysUpTo(Len(dates))
        /\ Checkpoint(bucket) = IF hLastDone = 0 THEN ReadCheckpoint(hStart) ELSE hLastDone
        /\ Checkpoint(bucket) < probe <=> hLastDone < probe

\* C2 (amended): when fetchMovies answers null for a pending day d, the
\* run does not reject for it and puts nothing for d; the later days of
\* the window are still fetched and each of them that completes writes the
\* checkpoint, so the checkpoint the run leaves is strictly before d
\* exactly when no later day of the window completed.
C2_NullDayIsSkipped ==
    /\ []C2_ReturnedAfterNullDay
    /\ [][ProbeAnswersNull =>
            /\ bucket' = bucket
            /\ error' = ""
            /\ pc' = IF idx < Len(dates) THEN "fetch" ELSE "returned"]_vars

\* a run returned with its checkpoint past a day that answered null
C2_CheckpointPassedNullDay ==
    /\ pc = "returned"
    /\ hProbeNull
    /\ Checkpoint(bucket) > probe

\* C3 (as stated): every day from the epoch up to the persisted checkpoint
\* has been fetched with an outcome of success or confirmed empty; a day
\* that only ever answered null is never at or before the checkpoint.
C3_DaysUpToCheckpointConfirmed ==
    (HasObject(lastSyncedBucketKey) /\ probe <= Checkpoint(bucket)) =>
        probeSeen = "movies"

\* C3 (amended): every day from the epoch up to the persisted checkpoint
\* has been fetched by some run with an answer (records, confirmed empty or
\* null) and not an error, and the checkpoint day itself answered records
\* or confirmed empty; a day that only ever answered null is at or before
\* the checkpoint once a later day of its window has completed.
C3_DaysUpToCheckpointFetched ==
    HasObject(lastSyncedBucketKey) =>
        /\ probe <= Checkpoint(bucket) => probeSeen # "never"
        /\ probe = Checkpoint(bucket) => probeSeen = "movies"

\* the checkpoint is past a day that only ever answered null
C3_NullOnlyDayBehindCheckpoint ==
    /\ HasObject(lastSyncedBucketKey)
    /\ probe < Checkpoint(bucket)
    /\ probeSeen = "null"

\* the body parses as JSON but is not an array of Movie
ViolatesSchema(resp) ==
    /\ resp.kind = "response"
    /\ resp.status \in 200..299
    /\ IsJson(resp.body)
    /\ ~zArrayMovieAccepts(JSONparse(resp.body))

\* syncMovies rejected because a fetched body failed validation
FailedValidation ==
    pc = "threw" /\ hThrewAt = "fetch" /\ error = "ValidationError"

\* C4 (as stated): when a fetched body violates the schema the run fails
\* with a validation error and the persisted checkpoint and collection are
\* those of before the run.
C4_InvalidBodyKeepsPreRunState ==
    FailedValidation =>
        /\ ReadCheckpoint(bucket) = ReadCheckpoint(hStart)
        /\ ReadCollection(bucket) = ReadCollection(hStart)

\* C4 (amended): when a fetched body violates the schema the run fails
\* with a validation error and the persisted checkpoint and collection are
\* those left by the last day the run completed before it: the values of
\* before the run only if the run completed no day.
C4_InvalidBodyKeepsCompletedDays ==
    /\ \A resp \in Responses :
          ViolatesSchema(resp) =>
              fetchMovies(resp) = [t |-> "throw", error |-> "ValidationError"]
    /\ FailedValidation =>
          /\ bucket = hDone
          /\ hLastDone # 0 => Checkpoint(bucket) = hLastDone
          /\ hLastDone = 0 =>
                /\ ReadCheckpoint(bucket) = ReadCheckpoint(hStart)
                /\ ReadCollection(bucket) = ReadCollection(hStart)

\* a run failed validation after it had completed a day that added records
C4_InvalidBodyAfterCompletedDay ==
    /\ FailedValidation
    /\ hLastDone # 0
    /\ ReadCollection(bucket) # ReadCollection(hStart)

C5_AbortedAtFetch ==
    hResult = "throw" =>
        /\ pc = "threw"
        /\ hThrewAt = "fetch"
        /\ error \in {"FetchError", "ValidationError"}
        /\ hDayPuts = 0
        /\ fetched = WindowDaysUpTo(idx)
        /\ bucket = hDone
        /\ hLastDone # 0 => Checkpoint(bucket) = hLastDone

\* C5: when the fetch of day d rejects (transport or validation error)
\* syncMovies rejects at once: no put is issued for d, no later day is
\* fetched, and what the earlier days of the run wrote stays persisted.
C5_FetchErrorAbortsRun ==
    /\ []C5_AbortedAtFetch
    /\ [][pc = "threw" => (pc' = "idle" /\ bucket' = bucket)]_vars

\* a fetch rejected after an earlier day of the run had added records,
\* with days of the window left
C5_FetchRejectsMidWindow ==
    /\ hResult = "throw"
    /\ hLastDone # 0
    /\ idx < Len(dates)
    /\ ReadCollection(bucket) # ReadCollection(hStart)

C6_ReturnedNotBehindStart ==
    pc = "returned" => Checkpoint(bucket) >= ReadCheckpoint(hStart)

\* C6: a run that returns leaves the persisted checkpoint at or after the
\* checkpoint it started from, and no step of any run ever moves the
\* persisted checkpoint to an earlier day.
C6_CheckpointNeverDecreases ==
    /\ []C6_ReturnedNotBehindStart
    /\ [][HasObject(lastSyncedBucketKey) =>
            /\ bucket'[lastSyncedBucketKey] # <<>>
            /\ Checkpoint(bucket') >= Checkpoint(bucket)]_vars

\* a run returned having moved a persisted checkpoint forward
C6_RunAdvancedCheckpoint ==
    /\ pc = "returned"
    /\ hStart[lastSyncedBucketKey] # <<>>
    /\ Checkpoint(bucket) > Checkpoint(hStart)

\* the run follows, at the same clock value, a run that returned
SecondRun == pc # "idle" /\ hAgain = "returned"

\* C7 (as stated): of two runs in immediate succession the second has an
\* empty window, fetches nothing and leaves the persisted collection and
\* checkpoint as the first left them.
C7_SecondRunDoesNothing ==
    (SecondRun /\ pc = "returned") =>
        /\ dates = <<>>
        /\ fetched = <<>>
        /\ bucket = hStart

\* C7 (amended): of two runs in immediate succession, when the first
\* returned with the checkpoint at yesterday, the second has an empty
\* window, issues no fetch and no put, and leaves the persisted collection
\* and checkpoint as the first left them; a first run that stopped short of
\* yesterday (its window capped at seven days, or ending in days that
\* answered null) is continued by the second.
C7_SecondRunAtYesterdayDoesNothing ==
    (SecondRun /\ hStart[lastSyncedBucketKey] # <<>> /\ Checkpoint(hStart) = Yesterday) =>
        /\ pc \in {"getLastSynced", "getSyncUntil", "returned", "threw"}
        /\ pc = "threw" => hThrewAt = "getLastSynced"
        /\ pc = "returned" => dates = <<>>
        /\ fetched = <<>>
        /\ hMoviePuts = 0
        /\ hSyncedPuts = 0
        /\ bucket = hStart

\* a second run returned after a first one that had left records and the
\* checkpoint at yesterday
C7_SecondRunReturnedAtYesterday ==
    /\ SecondRun
    /\ pc = "returned"
    /\ hStart[lastSyncedBucketKey] # <<>>
    /\ Checkpoint(hStart) = Yesterday
    /\ ReadCollection(bucket) # <<>>

\* the run started more than seven days behind yesterday
WideGap == pc # "idle" /\ Yesterday - ReadCheckpoint(hStart) > WindowDays

\* C8 (as stated): a run that starts with the checkpoint C more than
\* seven days before yesterday leaves the checkpoint at exactly C + 7.
C8_AdvancesExactlySeven ==
    (WideGap /\ pc = "returned") =>
        Checkpoint(bucket) = ReadCheckpoint(hStart) + WindowDays

\* C8 (amended): a run that starts with the checkpoint C more than seven
\* days before yesterday fetches the days C + 1 .. C + 7 and no other, and
\* never writes a checkpoint after C + 7; when it returns it has fetched
\* all seven, and it leaves the checkpoint at exactly C + 7 (epoch + 6 for
\* a first run) if day C + 7 answered records or confirmed empty; if day
\* C + 7 answered null the checkpoint is the last day that completed.
C8_WindowOfSevenDays ==
    WideGap =>
        LET C == ReadCheckpoint(hStart)
        IN  /\ Len(fetched) <= WindowDays
            /\ \A k \in 1..Len(fetched) : fetched[k] = C + k
            /\ ReadCheckpoint(bucket) <= C + WindowDays
            /\ pc = "returned" =>
                  /\ Len(fetched) = WindowDays
                  /\ hResult = "movies" => Checkpoint(bucket) = C + WindowDays
                  /\ hResult = "null" =>
                        /\ Checkpoint(bucket) < C + WindowDays
                        /\ Checkpoint(bucket) = IF hLastDone = 0 THEN C ELSE hLastDone

\* a first-ever run returned with the checkpoint at epoch + 6
C8_FirstRunEndsAtEpochPlusSix ==
    /\ WideGap
    /\ pc = "returned"
    /\ hStart = EmptyBucket
    /\ Checkpoint(bucket) = EpochDay + WindowDays - 1

\* C9: the collection syncMovies folds and every collection it has put
\* hold no two records with the same imdb_id.
C9_UniqueIdentifiers ==
    /\ UniqueIds(movies)
    /\ HasObject(moviesBucketKey) => UniqueIds(Collection(bucket))

\* the collection was put after a fold that added a record and dropped
\* another onto a collection that was not empty
C9_PutAfterDroppingDuplicate ==
    /\ pc = "setLastSynced"
    /\ hDropped
    /\ hDayPuts = 1
    /\ previousCount >= 1
    /\ Collection(bucket) = movies

\* C10 (as stated): the puts of movies.json in a run are as many as the
\* days whose fold made the collection longer.
C10_PutsEqualGrowingDays ==
    pc = "returned" => hMoviePuts = hGrewDays

\* C10 (amended): the collection is put for a processed day if and only
\* if the fold of that day made the in-memory collection longer; the puts
\* of movies.json in a run are as many as those days, plus the one put of
\* the empty collection by getMovies when the run found movies.json missing.
C10_PutIffCollectionGrew ==
    /\ pc = "setMovies" => Len(movies) > previousCount
    /\ pc = "setLastSynced" => (hDayPuts = 1 <=> Len(movies) > previousCount)
    /\ pc = "returned" =>
          hMoviePuts = hGrewDays + (IF hInitMovies THEN 1 ELSE 0)

\* two days completed onto a persisted empty collection with one put
C10_TwoDaysOnePut ==
    /\ pc = "returned"
    /\ hStart[moviesBucketKey] = <<JSONstringify(<<>>)>>
    /\ Len(fetched) = 2
    /\ hSyncedPuts = 2
    /\ hMoviePuts = 1
    /\ Len(Collection(bucket)) = 1

\* the day this run fetched last
LastFetched == fetched[Len(fetched)]

\* the last fetch of the run answered 404, or 200 with a body that is not JSON
EmptyDayAnswer == hStatus \in {"404", "200 text"}

OnlyPendingDayDone == pc = "returned" /\ Len(fetched) = 1

\* C12: when the fetch of a pending day answers a status that is not OK
\* (404 in the test), no record is added and last_synced.txt is not
\* advanced to that day; after a run whose only pending day answered so,
\* last_synced.txt is as before the run.
C12_NonOkDayKeepsCheckpoint ==
    /\ (pc \in {"fetch", "returned"} /\ hStatus \in {"404", "500"}) =>
          /\ Len(movies) = previousCount
          /\ ReadCheckpoint(bucket) # LastFetched
    /\ (OnlyPendingDayDone /\ hStatus \in {"404", "500"}) =>
          ReadCheckpoint(bucket) = ReadCheckpoint(hStart)

\* C13: when the fetch of a pending day answers 200 with a body that is
\* not JSON, the run does not raise for it, movies.json is unchanged and
\* last_synced.txt is not updated: after a run whose only pending day
\* answered so, both are as before the run.
C13_TextBodyDayKeepsCheckpoint ==
    /\ (hStatus = "200 text" /\ pc = "threw") => hThrewAt = "setLastSynced"
    /\ (OnlyPendingDayDone /\ hStatus = "200 text") =>
          /\ ReadCollection(bucket) = ReadCollection(hStart)
          /\ ReadCheckpoint(bucket) = ReadCheckpoint(hStart)

\* the run started with the persisted checkpoint at yesterday
StartedAtYesterday ==
    /\ pc # "idle"
    /\ hStart[lastSyncedBucketKey] # <<>>
    /\ Checkpoint(hStart) = Yesterday

\* C15: a run that starts with the persisted checkpoint at yesterday has
\* an empty window and returns having issued no fetch and no put; it reads
\* the checkpoint and nothing else (the collection is not even read), and
\* it rejects only if that read does.
C15_CheckpointAtYesterdayIsNoOp ==
    StartedAtYesterday =>
        /\ pc \in {"getLastSynced", "getSyncUntil", "returned", "threw"}
        /\ pc = "getSyncUntil" => lastSynced = parseISODate(Yesterday)
        /\ pc = "returned" => dates = <<>> /\ idx = 0
        /\ pc = "threw" => hThrewAt = "getLastSynced" /\ error = "StoreError"
        /\ fetched = <<>>
        /\ movies = <<>>
        /\ ~hInitMovies
        /\ hMoviePuts + hSyncedPuts = 0
        /\ bucket = hStart

\* such a run returned, late in the day, over a collection that holds records
C15_ReturnedAtYesterday ==
    /\ StartedAtYesterday
    /\ pc = "returned"
    /\ hAgain = "none"
    /\ now = parseISODate(Yesterday + 1) + (TicksPerDay - 1)
    /\ ReadCollection(bucket) # <<>>

\* the run started with a persisted checkpoint after yesterday
StartedAfterYesterday ==
    /\ pc # "idle"
    /\ hStart[lastSyncedBucketKey] # <<>>
    /\ Checkpoint(hStart) > Yesterday

\* C14: a run that starts with the persisted checkpoint strictly after
\* yesterday rejects with 'Invalid last sync date' as soon as it has read
\* the checkpoint: it issues no fetch and no put and leaves the checkpoint
\* as it found it; a run that starts with the checkpoint at yesterday, or
\* before, never rejects with that error.
C14_FutureCheckpointIsRejected ==
    /\ StartedAfterYesterday =>
          /\ pc \in {"getLastSynced", "getSyncUntil", "threw"}
          /\ pc = "threw" =>
                \/ hThrewAt = "getSyncUntil" /\ error = "Invalid last sync date"
                \/ hThrewAt = "getLastSynced" /\ error = "StoreError"
          /\ fetched = <<>>
          /\ hMoviePuts + hSyncedPuts = 0
          /\ bucket = hStart
    /\ (pc # "idle" /\ ReadCheckpoint(hStart) <= Yesterday) =>
          error # "Invalid last sync date"

\* the run rejected over a checkpoint of today, one day after yesterday,
\* at the last instant of the day
C14_TodayAsCheckpointRejected ==
    /\ StartedAfterYesterday
    /\ Checkpoint(hStart) = Yesterday + 1
    /\ now = parseISODate(Yesterday + 1) + (TicksPerDay - 1)
    /\ pc = "threw"
    /\ error = "Invalid last sync date"

\* the handler has answered with the collection
ReadAnswered == rpc = "done" /\ response.status = 200

\* C16: getMovies on an absent movies.json returns the empty collection
\* after one put of '[]'; getMovies on a movies.json that is present
\* returns the persisted collection as it is and issues no put.
C16_ReadInitialisesOnce ==
    /\ rpc = "initMovies" => hReadSaw = <<>> /\ rmovies = <<>> /\ hReadPuts = 0
    /\ ReadAnswered =>
          IF hReadSaw = <<>>
          THEN /\ response.body = JSONstringify(<<>>)
               /\ hReadPuts = 1
               /\ hReadLeft = <<JSONstringify(<<>>)>>
          ELSE /\ response.body = hReadSaw[1]
               /\ rmovies = JSONparse(hReadSaw[1])
               /\ hReadPuts = 0
               /\ hReadLeft = hReadSaw

\* a read found the '[]' that an earlier read had put (no run has yet
\* written anything) and answered it without a put
C16_SecondReadWritesNothing ==
    /\ ReadAnswered
    /\ pc = "idle"
    /\ ~HasObject(lastSyncedBucketKey)
    /\ hReadSaw = <<JSONstringify(<<>>)>>
    /\ hReadPuts = 0
    /\ response.body = JSONstringify(<<>>)

\* what the handler answers is what movies.json held at its last bucket operation
ReadAnswersPersisted ==
    ReadAnswered => hReadLeft # <<>> /\ response.body = hReadLeft[1]

\* C17: the read path answers with the collection of the last successful
\* put of movies.json, also after a run that rejected; no step of the read
\* path fetches from the remote source, touches last_synced.txt or moves
\* the scheduled run.
C17_ReadPathReturnsPersisted ==
    /\ []ReadAnswersPersisted
    /\ [][rpc' # rpc =>
            /\ bucket'[lastSyncedBucketKey] = bucket[lastSyncedBucketKey]
            /\ fetched' = fetched
            /\ hSyncedPuts' = hSyncedPuts
            /\ pc' = pc]_vars

\* a read answered the persisted records after the last run had rejected
C17_ReadAfterRejectedRun ==
    /\ ReadAnswered
    /\ pc = "idle"
    /\ hPrev = "threw"
    /\ hReadPuts = 0
    /\ Len(rmovies) = 2
    /\ response.body = ObjectBody(moviesBucketKey)

Ids(ms) == {ms[k].imdb_id : k \in 1..Len(ms)}

\* the checkpoint is at or after a day whose records this run folded and
\* whose checkpoint it wrote, and one of those records is not in movies.json
LostUpdate ==
    /\ pc \in {"fetch", "returned"}
    /\ fetched # <<>>
    /\ hLastDone = LastFetched
    /\ HasObject(lastSyncedBucketKey)
    /\ Checkpoint(bucket) >= LastFetched
    /\ \E k \in (previousCount + 1)..Len(movies) :
          movies[k].imdb_id \notin Ids(ReadCollection(bucket))

\* C18 (second half): with at most one run of syncMovies executing at a
\* time, no state is reachable in which the persisted checkpoint is at or
\* after a successfully fetched day while a record of that day is missing
\* from the persisted collection.
C18_OneRunLosesNoUpdate == ~LostUpdate

\* the remote data answers day d with records or with a confirmed-empty day
Answered(d) == fetchMovies(remote[d]).t = "movies"

\* the collection that folding the answered days up to d, in order, gives
RECURSIVE ExpectedAt(_)
ExpectedAt(d) ==
    IF d < EpochDay THEN <<>>
    ELSE IF Answered(d)
         THEN FoldAppendUnique(ExpectedAt(d - 1), fetchMovies(remote[d]).movies)
         ELSE ExpectedAt(d - 1)

\* the last answered day up to yesterday, epoch - 1 if there is none
FinalDay ==
    LET ds == {d \in EpochDay..Yesterday : Answered(d)}
    IN  IF ds = {} THEN EpochDay - 1 ELSE CHOOSE d \in ds : \A e \in ds : e <= d

\* the first answered day after c, or c if there is none
NextAnswered(c) ==
    LET ds == {d \in (c + 1)..Yesterday : Answered(d)}
    IN  IF ds = {} THEN c ELSE CHOOSE d \in ds : \A e \in ds : d <= e

\* C19: for fixed remote data and a fixed day, whatever runs were aborted
\* by a rejected fetch or a rejected put, the persisted state is always one
\* the unaborted runs pass through: the collection is the fold of the
\* answered days up to the checkpoint, or up to the next answered day (the
\* collection put of a day precedes its checkpoint put); and once the
\* checkpoint has reached the last answered day the collection is the fold
\* of all answered days, so that repeating syncMovies ends in the same
\* collection and checkpoint with or without aborts.
C19_RetryReachesSameState ==
    remote # <<>> =>
        LET c == ReadCheckpoint(bucket)
        IN  /\ c <= FinalDay
            /\ c = EpochDay - 1 \/ Answered(c)
            /\ ReadCollection(bucket) \in {ExpectedAt(c), ExpectedAt(NextAnswered(c))}
            /\ c = FinalDay => ReadCollection(bucket) = ExpectedAt(FinalDay)

\* every day is done, after a run that rejected, with two records kept
C19_CaughtUpAfterAbort ==
    /\ remote # <<>>
    /\ hAborted
    /\ pc = "idle"
    /\ HasObject(lastSyncedBucketKey)
    /\ Checkpoint(bucket) = Yesterday
    /\ Len(ReadCollection(bucket)) = 2

\* C20: getAllHistoricUrls(until) returns one URL for each calendar day
\* from 2 December 2019 (the epoch day) to the day of until, in ascending
\* order, and throws 'Date must be on or after 2 December 2019' when until
\* is before 2 December 2019.
C20_UrlsFromEpochToUntil ==
    urls # NotCalled =>
        IF untilArg < parseISODate(EpochDay)
        THEN urls = [t |-> "throw", error |-> "Date must be on or after 2 December 2019"]
        ELSE /\ urls.t = "urls"
             /\ Len(urls.urls) = toISODate(untilArg) - EpochDay + 1
             /\ \A k \in 1..Len(urls.urls) : urls.urls[k] = EpochDay + k - 1

\* the steps of syncMovies that read the checkpoint and the collection
ReadingSteps == {"getLastSynced", "initLastSynced", "getMovies", "initMovies"}

\* the text under key in bucket b, when there is one, is one its reader rejects
BadCheckpointText(b) ==
    b[lastSyncedBucketKey] # <<>> /\ ~zIsoDateAccepts(b[lastSyncedBucketKey][1])
BadCollectionText(b) ==
    /\ b[moviesBucketKey] # <<>>
    /\ LET text == b[moviesBucketKey][1]
       IN  ~IsJson(text) \/ ~zArrayMovieAccepts(JSONparse(text))

\* C21: a store error or a validation error raised while syncMovies reads
\* the checkpoint or the collection rejects the run before any fetch is
\* issued; a run over a checkpoint text that is not a date, or over a
\* movies.json that is not JSON or violates the schema, never gets to a
\* fetch, and getMovies on such content raises and puts nothing.
C21_ReadErrorAbortsBeforeFetch ==
    /\ (pc = "threw" /\ hThrewAt \in ReadingSteps) =>
          /\ error \in {"StoreError", "ValidationError", "SyntaxError"}
          /\ fetched = <<>>
          /\ idx = 0
          /\ hThrewAt \in {"getLastSynced", "getMovies"} => bucket[moviesBucketKey] = hStart[moviesBucketKey]
          /\ hThrewAt = "getLastSynced" => bucket = hStart
    /\ (pc # "idle" /\ BadCheckpointText(hStart)) =>
          /\ pc \in {"getLastSynced", "threw"}
          /\ pc = "threw" => hThrewAt = "getLastSynced"
          /\ fetched = <<>>
          /\ bucket = hStart
    /\ (pc # "idle" /\ BadCollectionText(hStart)) =>
          /\ pc \in {"getLastSynced", "initLastSynced", "getSyncUntil", "getMovies",
                     "returned", "threw"}
          /\ pc = "returned" => dates = <<>>
          /\ (pc = "threw" /\ hThrewAt = "getMovies" /\ error # "StoreError") =>
                error = (IF IsJson(hStart[moviesBucketKey][1])
                         THEN "ValidationError" ELSE "SyntaxError")
          /\ fetched = <<>>
          /\ hMoviePuts = 0
          /\ bucket[moviesBucketKey] = hStart[moviesBucketKey]

\* a run with pending days rejected on a movies.json that violates the schema
C21_SchemaViolationStoppedRun ==
    /\ pc = "threw"
    /\ hThrewAt = "getMovies"
    /\ error = "ValidationError"
    /\ dates # <<>>
    /\ fetched = <<>>
    /\ BadCollectionText(hStart)

\* the pending window of a checkpoint C: the days after C up to C + 7 or
\* yesterday, whichever is earlier
PendingWindow(C) ==
    LET last == IF C + WindowDays < Yesterday THEN C + WindowDays ELSE Yesterday
    IN  [k \in 1..(IF last > C THEN last - C ELSE 0) |-> C + k]

\* how far a run has come: every step of syncMovies moves it forward
StepRank ==
    CASE pc = "idle" -> 0
      [] pc = "getLastSynced" -> 1
      [] pc = "initLastSynced" -> 2
      [] pc = "getSyncUntil" -> 3
      [] pc = "getMovies" -> 4
      [] pc = "initMovies" -> 5
      [] pc = "fetch" -> 5 + 3 * idx
      [] pc = "setMovies" -> 6 + 3 * idx
      [] pc = "setLastSynced" -> 7 + 3 * idx
      [] OTHER -> 9 + 3 * WindowDays

C22_FetchedIsWindowPrefix ==
    pc # "idle" =>
        LET W == PendingWindow(ReadCheckpoint(hStart))
        IN  /\ Len(fetched) <= Len(W)
            /\ Len(W) <= WindowDays
            /\ \A k \in 1..Len(fetched) : fetched[k] = W[k]
            /\ pc \in {"fetch", "setMovies", "setLastSynced"} =>
                  /\ Len(dates) = Len(W)
                  /\ Len(fetched) \in {idx - 1, idx}
                  /\ pc # "fetch" => Len(fetched) = idx
            /\ pc = "returned" => fetched = W

\* C22: a run that returns has fetched exactly the days of the pending
\* window (the days after the checkpoint C up to min(C + 7, yesterday)), in
\* ascending order and each once; at any moment the days fetched are a
\* prefix of that window, so a run issues at most seven fetches, and every
\* step of a run moves it forward on a bounded scale, so it ends.
C22_FetchesExactlyTheWindow ==
    /\ []C22_FetchedIsWindowPrefix
    /\ [][(pc # "idle" /\ pc' # "idle") =>
            /\ StepRank' > StepRank
            /\ StepRank' <= 9 + 3 * WindowDays]_vars

\* a run returned, late in the day, after the three days that were pending
\* up to yesterday
C22_ThreeDaysUpToYesterday ==
    /\ pc = "returned"
    /\ hStart[lastSyncedBucketKey] # <<>>
    /\ Len(fetched) = 3
    /\ LastFetched = Yesterday
    /\ now = parseISODate(Yesterday + 1) + (TicksPerDay - 1)

\* the array appendUnique returned
Returned == heap[resultRef]

\* C23: appendUnique(existing, incoming) leaves the array 'existing' as it
\* was and returns an array that is not 'existing': with the content and
\* order of 'existing' when a record of incoming's identifier is in it (the
\* one already there is kept, the incoming one dropped), and otherwise
\* 'existing' followed by 'incoming' as its last element.
C23_AppendUniqueCopies ==
    resultRef # 0 =>
        /\ heap[MoviesRef] = hExisting
        /\ resultRef # MoviesRef
        /\ IF newMovieArg.imdb_id \in Ids(hExisting)
           THEN Returned = hExisting
           ELSE /\ Len(Returned) = Len(hExisting) + 1
                /\ SubSeq(Returned, 1, Len(hExisting)) = hExisting
                /\ Returned[Len(Returned)] = newMovieArg

\* a record was dropped whose identifier was present under another title
C23_SameIdOtherTitleDropped ==
    /\ resultRef # 0
    /\ Len(hExisting) = 2
    /\ newMovieArg \notin {hExisting[k] : k \in 1..Len(hExisting)}
    /\ newMovieArg.imdb_id \in Ids(hExisting)
    /\ Returned = hExisting

\* the first record of the batch b with the identifier id
FirstOf(b, id) == b[CHOOSE j \in 1..Len(b) : b[j].imdb_id = id /\ \A i \in 1..(j - 1) : b[i].imdb_id # id]

\* the records the fold of the day added: for each identifier of the batch
\* that was not in the collection, the first record of the batch with it,
\* in the order of the batch; a record whose identifier was in the
\* collection left the collection as it was
FirstSeenKept ==
    (pc \in {"setMovies", "setLastSynced"} /\ LastFetched = probe) =>
        LET before == SubSeq(movies, 1, previousCount)
            added  == SubSeq(movies, previousCount + 1, Len(movies))
        IN  /\ IsPrefix(ReadCollection(hDone), before)
            /\ Ids(movies) = Ids(before) \cup Ids(hBatch)
            /\ \A k \in 1..Len(added) :
                  /\ added[k].imdb_id \notin Ids(before)
                  /\ added[k] = FirstOf(hBatch, added[k].imdb_id)
            /\ \A k, l \in 1..Len(added) :
                  k < l => \E i, j \in 1..Len(hBatch) :
                              i < j /\ hBatch[i] = added[k] /\ hBatch[j] = added[l]

\* what a run holds in memory extends what is persisted
LocalExtendsPersisted ==
    (idx >= 1 /\ pc \in {"fetch", "setMovies", "setLastSynced", "returned"}) =>
        /\ HasObject(moviesBucketKey)
        /\ IsPrefix(Collection(bucket), movies)
        /\ pc \in {"fetch", "returned"} => Collection(bucket) = movies

\* C24: over runs that do not overlap the persisted collection only grows
\* at its end: every put of movies.json writes a sequence of which the
\* collection persisted before is a prefix, so a record once persisted is
\* never removed, moved or replaced; and of the records with one identifier
\* the one kept is the first of the first day that brought it.
C24_CollectionIsAppendOnly ==
    /\ [](FirstSeenKept /\ LocalExtendsPersisted)
    /\ [][/\ HasObject(moviesBucketKey) => bucket'[moviesBucketKey] # <<>>
          /\ IsPrefix(ReadCollection(bucket), ReadCollection(bucket'))]_vars

\* a day brought, under another title, an identifier an earlier day had
\* persisted, and a new record: the earlier record stayed first and the new
\* one was put after it
C24_LaterDuplicateDropped ==
    /\ pc = "setLastSynced"
    /\ LastFetched = probe
    /\ hDayPuts = 1
    /\ hLastDone # 0
    /\ previousCount = 1
    /\ Len(hBatch) = 2
    /\ hBatch[1].imdb_id = movies[1].imdb_id
    /\ hBatch[1] # movies[1]
    /\ Collection(bucket) = <<movies[1], hBatch[2]>>

\* the last day of the window of the run
LastWindowDay == getUrl(dates[Len(dates)])

C25_CheckpointFollowsEachDay ==
    /\ (pc \in {"fetch", "returned"} /\ fetched # <<>> /\ hResult = "movies") =>
          /\ hDayPuts \in {1, 2}
          /\ hLastDone = LastFetched
          /\ Checkpoint(bucket) = LastFetched
    /\ (pc = "returned" /\ dates # <<>>) =>
          /\ Len(fetched) = Len(dates)
          /\ hResult = "movies" => Checkpoint(bucket) = LastWindowDay

\* C25: the checkpoint is put once for each day that is processed, as the
\* last step of that day and with that day as its value, never for several
\* days at once; a run that does not reject fetches every day of its
\* window whatever the earlier days answered, and when its last day
\* answers OK the checkpoint it leaves is the last day of the window.
C25_CheckpointWrittenPerDay ==
    /\ []C25_CheckpointFollowsEachDay
    /\ [][bucket'[lastSyncedBucketKey] # bucket[lastSyncedBucketKey] =>
            \/ pc = "initLastSynced" /\ fetched = <<>>
            \/ /\ pc = "setLastSynced"
               /\ hResult = "movies"
               /\ hSyncedPuts' = hSyncedPuts + 1
               /\ Checkpoint(bucket') = LastFetched
               /\ ReadCheckpoint(bucket) < LastFetched]_vars

\* a run returned whose window had a day in the middle that answered null:
\* the days after it were fetched and the last one is the checkpoint
C25_NullDayInTheMiddle ==
    /\ pc = "returned"
    /\ hProbeNull
    /\ Len(fetched) >= 3
    /\ fetched[1] < probe
    /\ probe < LastFetched
    /\ hResult = "movies"
    /\ Checkpoint(bucket) = LastWindowDay

\* the run has got past getLastSynced
CheckpointRead ==
    pc \in {"getSyncUntil", "getMovies", "initMovies", "fetch", "setMovies",
            "setLastSynced", "returned"}
    \/ (pc = "threw" /\ hThrewAt \notin {"getLastSynced", "initLastSynced"})

C26_AbsentCheckpointInitialised ==
    /\ (CheckpointRead /\ hStart[lastSyncedBucketKey] = <<>>) =>
          /\ lastSynced = parseISODate(EpochDay - 1)
          /\ HasObject(lastSyncedBucketKey)
          /\ hSyncedPuts >= 1
          /\ fetched = <<>> => hSyncedPuts = 1
          /\ fetched = <<>> => Checkpoint(bucket) = EpochDay - 1
          /\ dates # <<>> => getUrl(dates[1]) = EpochDay
          /\ fetched # <<>> => fetched[1] = EpochDay
    /\ (pc = "initLastSynced" \/ (pc = "threw" /\ hThrewAt = "initLastSynced")) =>
          /\ hStart[lastSyncedBucketKey] = <<>>
          /\ fetched = <<>>
    /\ (pc # "idle" /\ hStart[lastSyncedBucketKey] # <<>> /\ fetched = <<>>) =>
          /\ hSyncedPuts = 0
          /\ bucket[lastSyncedBucketKey] = hStart[lastSyncedBucketKey]
          /\ CheckpointRead => lastSynced = parseISODate(Checkpoint(hStart))

\* C26: getLastSynced on a bucket without last_synced.txt puts and returns
\* the day before the epoch date (2019-12-01) before any fetch is issued,
\* so that the first day a first run fetches is the epoch date; on a bucket
\* that has last_synced.txt it puts nothing.  Every value put under
\* last_synced.txt is the calendar day, as z.iso.date() accepts it, of the
\* Date it was put for.
C26_CheckpointInitialisedToDayBeforeEpoch ==
    /\ []C26_AbsentCheckpointInitialised
    /\ [][bucket'[lastSyncedBucketKey] # bucket[lastSyncedBucketKey] =>
            /\ zIsoDateAccepts(Checkpoint(bucket'))
            /\ Checkpoint(bucket') \in (EpochDay - 1)..Yesterday
            /\ Checkpoint(bucket') =
                 toISODate(IF pc = "initLastSynced" THEN lastSynced ELSE dates[idx])
            /\ parseISODate(Checkpoint(bucket')) =
                 (IF pc = "initLastSynced" THEN lastSynced ELSE dates[idx])]_vars

\* a first-ever run returned: it started at the epoch date and left a
\* later checkpoint
C26_FirstRunStartedAtEpoch ==
    /\ pc = "returned"
    /\ hStart = EmptyBucket
    /\ Len(fetched) >= 2
    /\ fetched[1] = EpochDay
    /\ Checkpoint(bucket) > EpochDay

\* C27: no step of the read path removes a record from the persisted
\* collection: the put of '[]' that getMovies issues after it has seen
\* movies.json absent never overwrites a collection that a run has put in
\* between, so that the records persisted change only by synchronization.
C27_ReadPathNeverRemovesRecords ==
    [][rpc' # rpc =>
         /\ ReadCollection(bucket') = ReadCollection(bucket)
         /\ Ids(ReadCollection(bucket)) \subseteq Ids(ReadCollection(bucket'))]_vars

\* the persisted checkpoint, read as getLastSynced reads it, is not after yesterday
NotAfterYesterday == ReadCheckpoint(bucket) <= Yesterday

\* C28: when the persisted checkpoint is absent or not after yesterday, no
\* step of a run and no advance of the clock makes it later than
\* yesterday, whether the run returns or rejects; and a run that started
\* over such a checkpoint never rejects with 'Invalid last sync date'.
C28_CheckpointNeverAfterYesterday ==
    /\ [][NotAfterYesterday => NotAfterYesterday']_vars
    /\ []((pc # "idle" /\ ReadCheckpoint(hStart) <= Yesterday) =>
            /\ NotAfterYesterday
            /\ error # "Invalid last sync date")

\* just after midnight a run brought a persisted checkpoint up to yesterday
C28_CaughtUpJustAfterMidnight ==
    /\ pc = "returned"
    /\ hStart[lastSyncedBucketKey] # <<>>
    /\ Checkpoint(hStart) < Yesterday
    /\ Checkpoint(bucket) = Yesterday
    /\ now = parseISODate(Yesterday + 1)

\* the run is within a day whose checkpoint put has not succeeded
WithinDay ==
    pc \in {"setMovies", "setLastSynced"}
    \/ (pc = "threw" /\ hThrewAt \in {"setMovies", "setLastSynced"})

\* the records of the days this run found persisted or has completed
CompletedPart == IF WithinDay THEN SubSeq(movies, 1, previousCount) ELSE movies

C29_CollectionNotBehind ==
    (idx >= 1 /\ pc # "idle") =>
        /\ Ids(CompletedPart) \subseteq Ids(ReadCollection(bucket))
        /\ (hLastDone # 0 /\ HasObject(lastSyncedBucketKey)) => Checkpoint(bucket) = hLastDone

\* C29: the collection put of a day precedes its checkpoint put, so that in
\* every state of runs that do not overlap (between the two puts and after
\* a run rejected on either included) the persisted collection holds the
\* identifier of every record of the days up to the persisted checkpoint:
\* the collection is at times ahead of the checkpoint and never behind it.
C29_CollectionPutPrecedesCheckpointPut ==
    /\ []C29_CollectionNotBehind
    /\ [][(pc = "setLastSynced" /\ bucket'[lastSyncedBucketKey] # bucket[lastSyncedBucketKey]) =>
            /\ Ids(movies) \subseteq Ids(ReadCollection(bucket))
            /\ bucket'[moviesBucketKey] = bucket[moviesBucketKey]]_vars

\* the persisted checkpoint is yesterday
CaughtUp == HasObject(lastSyncedBucketKey) /\ Checkpoint(bucket) = Yesterday

\* no fetch of the current run has answered null or rejected
FetchesAnswer == hResult \notin {"null", "throw"}

\* the first pending day of the run has answered success or 404
FirstDayAnswered == Len(fetched) = 1 /\ idx = 1 /\ hResult = "movies"

\* the run has moved the checkpoint forward
Advanced ==
    /\ hLastDone # 0
    /\ Checkpoint(bucket) >= fetched[1]
    /\ Checkpoint(bucket) > ReadCheckpoint(hStart)

====
